---- MODULE Spec2Model ----
(***************************************************************************)
(* MultihopTun (tun/multihoptun/tun.go, bind.go): a tun.Device whose Write *)
(* feeds the receive function of a conn.Bind and whose Read is fed by the  *)
(* Bind's Send, synthesising IPv4/IPv6 + UDP headers on the way.           *)
(*                                                                         *)
(* Every call of Write, Read, Send and of the receive function is one call *)
(* slot of the model.  A Go channel operation is atomic; a select that     *)
(* finds no ready case parks the goroutine on the wait queues of all its   *)
(* channels, and the channel operation that wakes it also decides which    *)
(* case it takes (runtime selectgo / closechan).  A panic is recorded as   *)
(* the outcome of the call that raised it.                                 *)
(***************************************************************************)
EXTENDS Integers, Sequences, FiniteSets, TLC

\* ------------------------------------------------------------------ bounds

\* Longest UDP payload handed to Send.
MaxPayloadLen == 1
\* Calls of Write, Read, Send and of the receive function that are started.
MaxCalls == 4
\* Calls of MultihopTun.Close, multihopBind.Close and multihopBind.Open.
MaxCtlCalls == 3
\* Calls of the DAITA event emitters.
MaxEvents == 2
\* Calls of EnableDaita / ActivateDaita and of Disable / Close.
MaxDaitaCalls == 3
\* The last instant of the clock.
MaxTime == 2

\* ------------------------------------------------------- program constants

IPv4MinimumSize == 20
IPv6MinimumSize == 40
UDPMinimumSize == 8
UDPProtocolNumber == 17
DefaultTTL == 64
IPv4AddressSize == 4
DaitaHeaderLen == 4
DaitaPaddingMarker == 255
DaitaOffsetTotalLength == 2
ActionTypeInjectPadding == 1
MaxContentSize == 65503

None == "none"

\* ----------------------------------------------------------- byte helpers

Min(a, b) == IF a < b THEN a ELSE b

U16(v) == v % 65536

\* binary.BigEndian.PutUint16
PutUint16(v) == << (v \div 256) % 256, v % 256 >>

\* binary.BigEndian.Uint16 of b[i], b[i+1] (1-based i)
Uint16At(b, i) == b[i] * 256 + b[i + 1]

Zeros(n) == [i \in 1..n |-> 0]

\* b[k:] of Go, k 0-based
From(b, k) == SubSeq(b, k + 1, Len(b))

\* Go's copy(dst, src) as the new value of dst
Copy(dst, src) ==
  [i \in 1..Len(dst) |-> IF i <= Len(src) THEN src[i] ELSE dst[i]]

\* dst with src written at 0-based position k (src fits)
Splice(dst, k, src) ==
  [i \in 1..Len(dst) |-> IF i > k /\ i <= k + Len(src) THEN src[i - k] ELSE dst[i]]

\* ones' complement 16-bit addition with end-around carry
Add16(a, b) == LET s == a + b IN IF s > 65535 THEN s - 65535 ELSE s

RECURSIVE SumWords(_, _, _)
SumWords(b, i, acc) ==
  IF i > Len(b) THEN acc
  ELSE IF i = Len(b) THEN Add16(acc, b[i] * 256)
  ELSE SumWords(b, i + 2, Add16(acc, b[i] * 256 + b[i + 1]))

\* checksum.Checksum(buf, initial): the folded ones' complement sum
Checksum(b, initial) == SumWords(b, 1, initial)

\* ^x on a uint16
Not16(x) == 65535 - x

\* x | 1 on an unsigned integer
Or1(x) == (x \div 2) * 2 + 1

\* Mutant: the random port without its lowest bit forced to 1.
RandPortAny(r) == U16(r \div 65536)

\* uint16(rand.Uint32()>>16) | 1
RandPort(r) == Or1(U16(r \div 65536))

\* ------------------------------------------------------------ inputs

\* The value rand.Uint32() returns in Open: the one whose port would be 0
\* without the | 1.
RandWords == {0}

\* Ports the host passes to Open (0: pick one at random).
OpenPorts == {0, 51820}

\* The value rand.Uint32() returns in NewMultihopTun.
ConnectionRand == 305397760

RemotePort == 5005

V4Local == <<1, 2, 3, 5>>
V4Remote == <<1, 2, 3, 4>>
V6Local == <<253, 0, 0, 0, 0, 0, 0, 0, 0, 0, 0, 0, 0, 0, 0, 5>>
V6Remote == <<253, 0, 0, 0, 0, 0, 0, 0, 0, 0, 0, 0, 0, 0, 0, 4>>

\* The i-th byte of the payload pattern.
PayloadByte(i) == (i * 151 + 66) % 256

\* UDP payloads handed to Send: every length up to MaxPayloadLen.
Payloads == {[i \in 1..k |-> PayloadByte(i)] : k \in 0..MaxPayloadLen}

\* ------------------------------------------------------------ state

\* The call slots of each operation; a slot is used for one call, in order.
Writers == {"w1", "w2"}
Receivers == {"v1", "v2"}
Readers == {"r1", "r2"}
Senders == {"s1", "s2"}

\* The slot used before slot p, if any
Earlier(p) ==
  CASE p = "w2" -> {"w1"} [] p = "v2" -> {"v1"} [] p = "r2" -> {"r1"}
    [] p = "s2" -> {"s1"} [] OTHER -> {}

VARIABLES
  isIpv4,          \* MultihopTun.isIpv4
  ipConnectionId,  \* MultihopTun.ipConnectionId
  localPort,       \* MultihopTun.localPort
  closed,          \* MultihopTun.closed
  shutdownChan,    \* MultihopTun.shutdownChan: "open" or "closed"
  socketShutdown,  \* the channel multihopBind.socketShutdown holds: "open" or "closed"
  writeRecv,       \* MultihopTun.writeRecv: goroutines parked on it
  readRecv,        \* MultihopTun.readRecv: goroutines parked on it
  wr,              \* the calls of MultihopTun.Write
  rc,              \* the calls of the receive function
  rd,              \* the calls of MultihopTun.Read
  sn,              \* the calls of multihopBind.Send
  ctl              \* the calls of Close, multihopBind.Close and Open so far

tunVars == <<isIpv4, ipConnectionId, localPort, closed, shutdownChan,
             socketShutdown, writeRecv, readRecv, wr, rc, rd, sn, ctl>>

VARIABLES
  peerDaita,       \* peer.daita / device.Daita: "nil", or the type of the struct it points to
  events,          \* the events channel: its buffer, capacity and whether it is closed
  actions,         \* the actions channel
  machineActions,  \* daita.machineActions: the pending action of each machine
  maybenot,        \* the engine handle: the calls of maybenot_start, _on_event, _stop
  eventWorker,     \* the goroutine of handleEvents
  actionWorker,    \* the goroutine of HandleDaitaActions
  closer,          \* the calls of Disable / Close
  staged,          \* the elements handed to peer.StagePacket, in order
  now,             \* time.Now()
  dlog             \* the calls of EnableDaita / ActivateDaita and of the event emitters

daitaVars == <<peerDaita, events, actions, machineActions, maybenot, eventWorker,
               actionWorker, closer, staged, now, dlog>>

vars == <<tunVars, daitaVars>>

\* MultihopTun.localIp / remoteIp: local.AsSlice(), remote.AsSlice()
localIp == IF isIpv4 THEN V4Local ELSE V6Local
remoteIp == IF isIpv4 THEN V4Remote ELSE V6Remote

\* ------------------------------------------------------------ IP/UDP codec

\* MultihopTun.headerSize
headerSize ==
  IF isIpv4 THEN IPv4MinimumSize + UDPMinimumSize
  ELSE IPv6MinimumSize + UDPMinimumSize

\* header.IPv4.Encode of the fields writeV4Payload fills, checksum field as given
IPv4Header(totalLength, id, src, dst, xsum) ==
  <<69, 0>> \o PutUint16(totalLength) \o PutUint16(id) \o <<0, 0>>
    \o <<DefaultTTL, UDPProtocolNumber>> \o PutUint16(xsum) \o src \o dst

\* The checksum field of the UDP header as writeUdpPayload leaves it:
\* target.SetChecksum(0) after the sum was computed.
UdpChecksumField(udp, src, dst) == 0

\* Mutant: the UDP header is written, the payload is not copied behind it.
writeUdpPayloadNoCopy(target, payload, src, dst) ==
  Copy(target, PutUint16(localPort) \o PutUint16(RemotePort)
                 \o PutUint16(U16(Len(payload) + UDPMinimumSize)) \o <<0, 0>>)

\* header.UDP.Encode, then the payload copied behind it, into target
\* (target is ipv4.Payload(): the bytes of the IP payload)
writeUdpPayload(target, payload, src, dst) ==
  LET hdr == PutUint16(localPort) \o PutUint16(RemotePort)
               \o PutUint16(U16(Len(payload) + UDPMinimumSize)) \o <<0, 0>>
      enc == Copy(target, hdr \o Copy(From(target, UDPMinimumSize), payload))
  IN Splice(enc, 6, PutUint16(UdpChecksumField(enc, src, dst)))

\* tcpip.AddrFrom4Slice panics unless the slice holds 4 bytes
AddrFrom4SlicePanics(addr) == Len(addr) # IPv4AddressSize

\* MultihopTun.writeV4Payload: the new bytes of target and the size returned
writeV4Payload(target, payload) ==
  LET size == headerSize + Len(payload)
      raw == IPv4Header(U16(size), ipConnectionId, localIp, remoteIp, 0)
      hdr == IPv4Header(U16(size), ipConnectionId, localIp, remoteIp,
                        Not16(Checksum(raw, 0)))
      ipPayload == SubSeq(target, IPv4MinimumSize + 1, U16(size))
  IN [ panic |-> AddrFrom4SlicePanics(localIp) \/ AddrFrom4SlicePanics(remoteIp),
       size |-> size,
       err |-> None,
       target |-> Splice(Copy(target, hdr), IPv4MinimumSize,
                         writeUdpPayload(ipPayload, payload, localIp, remoteIp)) ]

\* MultihopTun.writeV6Payload: src and dst are built with AddrFrom4Slice from
\* the 16-byte addresses, which panics before a byte is written
writeV6Payload(target, payload) ==
  [ panic |-> AddrFrom4SlicePanics(localIp) \/ AddrFrom4SlicePanics(remoteIp),
    size |-> headerSize + Len(payload),
    err |-> None,
    target |-> target ]

\* MultihopTun.writePayload
writePayload(target, payload) ==
  IF headerSize + Len(payload) > Len(target)
  THEN [panic |-> FALSE, size |-> 0, err |-> "target buffer is too small",
        target |-> target]
  ELSE IF isIpv4 THEN writeV4Payload(target, payload)
  ELSE writeV6Payload(target, payload)

\* header.IPVersion
IPVersion(b) == IF Len(b) < 1 THEN -1 ELSE b[1] \div 16

\* b[lo:][:n] of Go: the bytes, or a panic when out of range
Slice(b, lo, n) ==
  IF lo > Len(b) \/ n > Len(b) - lo
  THEN [panic |-> TRUE, bytes |-> <<>>]
  ELSE [panic |-> FALSE, bytes |-> SubSeq(b, lo + 1, lo + n)]

\* header.UDP(ip payload).Payload(): b[UDPMinimumSize:]
UdpPayload(p) ==
  IF p.panic \/ Len(p.bytes) < UDPMinimumSize
  THEN [panic |-> TRUE, bytes |-> <<>>]
  ELSE [panic |-> FALSE, bytes |-> From(p.bytes, UDPMinimumSize)]

\* header.IPv4.Payload(): b[HeaderLength():][:PayloadLength()]
IPv4Payload(b) ==
  IF Len(b) < 4 THEN [panic |-> TRUE, bytes |-> <<>>]
  ELSE LET hl == (b[1] % 16) * 4
       IN Slice(b, hl, U16(Uint16At(b, 3) - hl))

\* header.IPv6.Payload(): b[IPv6MinimumSize:][:PayloadLength()]
IPv6Payload(b) ==
  IF Len(b) < 6 THEN [panic |-> TRUE, bytes |-> <<>>]
  ELSE Slice(b, IPv6MinimumSize, Uint16At(b, 5))

\* The receive function's view of a written packet: the UDP payload it copies
\* out, nothing when the version nibble is neither 4 nor 6
recvPayload(datagram) ==
  IF IPVersion(datagram) = 4 THEN UdpPayload(IPv4Payload(datagram))
  ELSE IF IPVersion(datagram) = 6 THEN UdpPayload(IPv6Payload(datagram))
  ELSE [panic |-> FALSE, bytes |-> <<>>]

\* ------------------------------------------------------------ call inputs

\* A UDP header followed by its payload, as a peer outside the model builds it.
UdpDatagram(srcPort, dstPort, payload) ==
  PutUint16(srcPort) \o PutUint16(dstPort)
    \o PutUint16(Len(payload) + UDPMinimumSize) \o <<0, 0>> \o payload

\* An IPv4 + UDP packet from the remote endpoint, as the inner device writes it.
InboundV4(payload) ==
  LET raw == IPv4Header(IPv4MinimumSize + UDPMinimumSize + Len(payload), 0,
                        V4Remote, V4Local, 0)
  IN IPv4Header(IPv4MinimumSize + UDPMinimumSize + Len(payload), 0,
                V4Remote, V4Local, Not16(Checksum(raw, 0)))
       \o UdpDatagram(RemotePort, 51820, payload)

\* An IPv6 + UDP packet from the remote endpoint.
InboundV6(payload) ==
  <<96, 0, 0, 0>> \o PutUint16(Len(payload) + UDPMinimumSize)
    \o <<UDPProtocolNumber, DefaultTTL>> \o V6Remote \o V6Local
    \o UdpDatagram(RemotePort, 51820, payload)

\* A DAITA padding packet: its first byte is neither an IPv4 nor an IPv6 version.
NonIpPacket == <<255, 0, 0, 4>>

\* The payload of the inbound packets: longer than any payload handed to Send.
InboundPayload == [i \in 1..MaxPayloadLen + 1 |-> PayloadByte(i + 7)]

\* What Write is called with: (packet, offset), and the Read call the packet
\* was returned by when it is a datagram read from this tun.
WriteInputs ==
  { [packet |-> IF isIpv4 THEN InboundV4(InboundPayload)
                 ELSE <<0, 0>> \o InboundV6(InboundPayload),
     offset |-> IF isIpv4 THEN 0 ELSE 2, src |-> None],
    [packet |-> NonIpPacket, offset |-> 0, src |-> None] }
  \cup
  { [packet |-> SubSeq(rd[r].buf, 1, rd[r].offset + rd[r].size),
     offset |-> rd[r].offset, src |-> r] :
      r \in {x \in Readers : rd[x].pc = "done" /\ rd[x].err = None /\ rd[x].size > 0} }

\* What Read is called with: the length of the buffer and the offset.
ReadInputs ==
  { [len |-> 2 + headerSize + MaxPayloadLen, offset |-> 2],
    [len |-> headerSize, offset |-> 0] }

\* The lengths of the buffers the receive function is called with.
RecvBufLens == {MaxPayloadLen + 1, MaxPayloadLen}

\* ------------------------------------------------------------ calls

Idle ==
  [pc |-> "idle", size |-> 0, err |-> None, late |-> FALSE, atClose |-> FALSE,
   prevDone |-> FALSE]

\* A call of a select that parks: removed from the wait queue it sits on
Dequeue(q, waiters) == SelectSeq(q, LAMBDA p : p \notin waiters)

\* The machines of the engine (maybenot_num_machines of them).
Machines == {1, 2}

\* A channel that was not made yet
\* The nil *Event and the nil *Action, also the value of a map entry or of a
\* local that holds no action
NilEvent == [id |-> 0, eventType |-> 0, xmitBytes |-> 0]
NilAction == [id |-> 0, machine |-> 0, time |-> 0, actionType |-> 0, byteCount |-> 0]

NoChannel == [buf |-> <<>>, cap |-> 0, closed |-> FALSE]

Init ==
  /\ isIpv4 \in BOOLEAN
  /\ ipConnectionId = RandPort(ConnectionRand)
  /\ localPort = 0
  /\ closed = FALSE
  /\ shutdownChan = "open"
  /\ socketShutdown = "open"
  /\ writeRecv = [sendq |-> <<>>, recvq |-> <<>>]
  /\ readRecv = [sendq |-> <<>>, recvq |-> <<>>]
  /\ wr = [w \in Writers |->
             Idle @@ [packet |-> <<>>, offset |-> 0, by |-> None, src |-> None]]
  /\ rd = [r \in Readers |-> Idle @@ [buf |-> <<>>, offset |-> 0, by |-> None]]
  /\ rc = [v \in Receivers |->
             Idle @@ [out |-> <<>>, batch |-> None, stale |-> FALSE,
                      startBind |-> "new", closeDuring |-> FALSE]]
  /\ sn = [s \in Senders |->
             Idle @@ [payload |-> <<>>, batch |-> None, stale |-> FALSE,
                      startBind |-> "new", closeDuring |-> FALSE]]
  /\ ctl = [calls |-> 0, ops |-> 0, closePanics |-> 0, opened |-> FALSE,
            openPort |-> 0, actualPort |-> 0, bind |-> "new"]
  /\ peerDaita = "nil"
  /\ events = NoChannel
  /\ actions = NoChannel
  /\ machineActions = [m \in Machines |-> NilAction]
  /\ maybenot = [started |-> 0, stopped |-> 0, onEvent |-> <<>>, usedAfterStop |-> FALSE]
  /\ eventWorker = [pc |-> "none", action |-> NilAction, spawned |-> 0]
  /\ actionWorker = [pc |-> "none", spawned |-> 0]
  /\ closer = [pc |-> "idle", returned |-> 0, panics |-> 0]
  /\ staged = <<>>
  /\ now = 0
  /\ dlog = [calls |-> 0, enabled |-> <<>>, emits |-> 0, dropped |-> {},
             emitPanics |-> 0, injects |-> 0, superseded |-> {}, superseding |-> {},
             cancelled |-> {}, skipped |-> {}, behind |-> {},
             blocks |-> 0, atClose |-> {}]

\* A call may start in slot p: the slot is free, the slots before it are used
CanStart(calls, p) ==
  /\ calls[p].pc = "idle"
  /\ \A q \in Earlier(p) : calls[q].pc # "idle"
  /\ ctl.calls < MaxCalls

\* Whether the call before the call of slot p, by the same producer, has
\* returned without an error
PrevReturned(calls, p) ==
  \E q \in Earlier(p) : calls[q].pc = "done" /\ calls[q].err = None

\* Mutant: Send and the receive function select on the socket channel only.
bindClosedReadySocketOnly == socketShutdown = "closed"

\* The cases of the select of Send and of the receive function that end the
\* call with net.ErrClosed: <-st.shutdownChan and <-st.socketShutdown
bindClosedReady == shutdownChan = "closed" \/ socketShutdown = "closed"

\* Mutant: Write returns the size of the batch it sent, len(packet).
WriteReturnOwnSize(own, completed) == own.size

\* What Write returns once its batch came back on the completion channel
WriteReturn(own, completed) == completed.size

\* What Read returns once its batch came back on the completion channel
ReadReturn(own, completed) == completed.size

\* Mutant: one completion channel for all the calls of a direction: a batch
\* sent back is received by any producer waiting, another one if there is one.
completionShared(calls, p) ==
  CHOOSE q \in DOMAIN calls :
    /\ calls[q].pc = "completion"
    /\ \A o \in DOMAIN calls : (o # p /\ calls[o].pc = "completion") => q # p

\* The producer that receives what is sent on the completion channel of the
\* batch of call p: Write and Read make the channel anew in each call and
\* receive from the one they made
completion(calls, p) == p

\* Mutant: a call paired with its opposite stays waiting on the channel.
PairedKept(q) == q

\* The calls waiting on an unbuffered channel after the first of them was
\* paired with the opposite call: a value sent is received once
Paired(q) == Tail(q)

\* Mutant: a Write that finds no receive call parked returns len(packet), nil
\* at once (a default case in its select).
WriteNoWait(w, inputs) ==
  /\ CanStart(wr, w)
  /\ ctl' = [ctl EXCEPT !.calls = @ + 1]
  /\ \E in \in inputs :
       LET call == [wr[w] EXCEPT !.packet = in.packet, !.offset = in.offset,
                                 !.src = in.src, !.size = Len(in.packet),
                                 !.late = (shutdownChan = "closed"),
                                 !.prevDone = PrevReturned(wr, w)]
       IN \/ /\ writeRecv.recvq # <<>>
             /\ LET v == Head(writeRecv.recvq)
                IN /\ wr' = [wr EXCEPT ![w] = [call EXCEPT !.pc = "completion", !.by = v]]
                   /\ rc' = [rc EXCEPT ![v].pc = "taken", ![v].batch = w, ![v].stale = FALSE]
                   /\ writeRecv' = [writeRecv EXCEPT !.recvq = Paired(@)]
          \/ /\ writeRecv.recvq = <<>>
             /\ wr' = [wr EXCEPT ![w] = [call EXCEPT !.pc = "done"]]
             /\ UNCHANGED <<rc, writeRecv>>
  /\ UNCHANGED <<daitaVars, isIpv4, ipConnectionId, localPort, closed, shutdownChan,
                 socketShutdown, readRecv, rd, sn>>

\* MultihopTun.Write up to its select: hand the batch to a parked receive call,
\* or return io.EOF on shutdown, or park
Write(w, inputs) ==
  /\ CanStart(wr, w)
  /\ ctl' = [ctl EXCEPT !.calls = @ + 1]
  /\ \E in \in inputs :
       LET call == [wr[w] EXCEPT !.packet = in.packet, !.offset = in.offset,
                                 !.src = in.src, !.size = Len(in.packet),
                                 !.late = (shutdownChan = "closed"),
                                 !.prevDone = PrevReturned(wr, w)]
       IN \/ /\ writeRecv.recvq # <<>>
             /\ LET v == Head(writeRecv.recvq)
                IN /\ wr' = [wr EXCEPT ![w] = [call EXCEPT !.pc = "completion", !.by = v]]
                   /\ rc' = [rc EXCEPT ![v].pc = "taken", ![v].batch = w, ![v].stale = FALSE]
                   /\ writeRecv' = [writeRecv EXCEPT !.recvq = Paired(@)]
          \/ /\ shutdownChan = "closed"
             /\ wr' = [wr EXCEPT ![w] = [call EXCEPT !.pc = "done", !.size = 0,
                                                     !.err = "EOF"]]
             /\ UNCHANGED <<rc, writeRecv>>
          \/ /\ writeRecv.recvq = <<>> /\ shutdownChan = "open"
             /\ wr' = [wr EXCEPT ![w] = [call EXCEPT !.pc = "blocked"]]
             /\ writeRecv' = [writeRecv EXCEPT !.sendq = Append(@, w)]
             /\ UNCHANGED rc
  /\ UNCHANGED <<daitaVars, isIpv4, ipConnectionId, localPort, closed, shutdownChan,
                 socketShutdown, readRecv, rd, sn>>

\* Mutant: a Write woken by Close returns 0 and a nil error.
WriteShutdownNil(w) ==
  /\ wr[w].pc = "woken"
  /\ wr' = [wr EXCEPT ![w].pc = "done", ![w].size = 0]
  /\ UNCHANGED <<daitaVars, isIpv4, ipConnectionId, localPort, closed, shutdownChan,
                 socketShutdown, writeRecv, readRecv, rc, rd, sn, ctl>>

\* A Write woken by Close: return 0, io.EOF
WriteShutdown(w) ==
  /\ wr[w].pc = "woken"
  /\ wr' = [wr EXCEPT ![w].pc = "done", ![w].size = 0, ![w].err = "EOF"]
  /\ UNCHANGED <<daitaVars, isIpv4, ipConnectionId, localPort, closed, shutdownChan,
                 socketShutdown, writeRecv, readRecv, rc, rd, sn, ctl>>

\* The receive function up to its select: take the batch of a parked Write,
\* or return net.ErrClosed, or park
Receive(v, lens) ==
  /\ CanStart(rc, v)
  /\ ctl' = [ctl EXCEPT !.calls = @ + 1]
  /\ ctl.opened
  /\ \E len \in lens :
       LET call == [rc[v] EXCEPT !.out = Zeros(len),
                                 !.late = (shutdownChan = "closed"),
                                 !.startBind = ctl.bind]
       IN \/ /\ bindClosedReady
             /\ rc' = [rc EXCEPT ![v] = [call EXCEPT !.pc = "done", !.err = "ErrClosed"]]
             /\ UNCHANGED <<wr, writeRecv>>
          \/ /\ writeRecv.sendq # <<>>
             /\ LET w == Head(writeRecv.sendq)
                IN /\ rc' = [rc EXCEPT ![v] = [call EXCEPT !.pc = "taken", !.batch = w]]
                   /\ wr' = [wr EXCEPT ![w].pc = "completion", ![w].by = v]
                   /\ writeRecv' = [writeRecv EXCEPT !.sendq = Paired(@)]
          \/ /\ ~bindClosedReady /\ writeRecv.sendq = <<>>
             /\ rc' = [rc EXCEPT ![v] = [call EXCEPT !.pc = "blocked"]]
             /\ writeRecv' = [writeRecv EXCEPT !.recvq = Append(@, v)]
             /\ UNCHANGED wr
  /\ UNCHANGED <<daitaVars, isIpv4, ipConnectionId, localPort, closed, shutdownChan,
                 socketShutdown, readRecv, rd, sn>>

\* A receive call woken by Close or by multihopBind.Close: return net.ErrClosed
ReceiveShutdown(v) ==
  /\ rc[v].pc = "woken"
  /\ rc' = [rc EXCEPT ![v].pc = "done", ![v].err = "ErrClosed"]
  /\ UNCHANGED <<daitaVars, isIpv4, ipConnectionId, localPort, closed, shutdownChan,
                 socketShutdown, writeRecv, readRecv, wr, rd, sn, ctl>>

\* The receive function after its select: strip the headers, copy the UDP
\* payload out, set the batch's size and send it back on its completion channel
ReceiveDeliver(v) ==
  /\ rc[v].pc = "taken"
  /\ LET w == rc[v].batch
         got == recvPayload(From(wr[w].packet, wr[w].offset))
         bytesRead == Len(got.bytes)
     IN IF got.panic
        THEN /\ rc' = [rc EXCEPT ![v].pc = "panicked"]
             /\ UNCHANGED wr
        ELSE /\ rc' = [rc EXCEPT ![v].pc = "done", ![v].size = bytesRead,
                                 ![v].out = Copy(@, got.bytes)]
             /\ wr' = [wr EXCEPT ![completion(wr, w)].pc = "done",
                                 ![completion(wr, w)].size =
                                   WriteReturn(wr[w], [size |-> bytesRead])]
  /\ UNCHANGED <<daitaVars, isIpv4, ipConnectionId, localPort, closed, shutdownChan,
                 socketShutdown, writeRecv, readRecv, rd, sn, ctl>>

\* MultihopTun.Read up to its select: hand the buffer to a parked Send, or
\* return io.EOF on shutdown, or park
Read(r, inputs) ==
  /\ CanStart(rd, r)
  /\ ctl' = [ctl EXCEPT !.calls = @ + 1]
  /\ \E in \in inputs :
       LET call == [rd[r] EXCEPT !.buf = Zeros(in.len), !.offset = in.offset,
                                 !.late = (shutdownChan = "closed")]
       IN \/ /\ readRecv.recvq # <<>>
             /\ LET s == Head(readRecv.recvq)
                IN /\ rd' = [rd EXCEPT ![r] = [call EXCEPT !.pc = "completion", !.by = s]]
                   /\ sn' = [sn EXCEPT ![s].pc = "taken", ![s].batch = r, ![s].stale = FALSE]
                   /\ readRecv' = [readRecv EXCEPT !.recvq = Paired(@)]
          \/ /\ shutdownChan = "closed"
             /\ rd' = [rd EXCEPT ![r] = [call EXCEPT !.pc = "done", !.err = "EOF"]]
             /\ UNCHANGED <<sn, readRecv>>
          \/ /\ readRecv.recvq = <<>> /\ shutdownChan = "open"
             /\ rd' = [rd EXCEPT ![r] = [call EXCEPT !.pc = "blocked"]]
             /\ readRecv' = [readRecv EXCEPT !.sendq = Append(@, r)]
             /\ UNCHANGED sn
  /\ UNCHANGED <<daitaVars, isIpv4, ipConnectionId, localPort, closed, shutdownChan,
                 socketShutdown, writeRecv, wr, rc>>

\* A Read woken by Close: return 0, io.EOF
ReadShutdown(r) ==
  /\ rd[r].pc = "woken"
  /\ rd' = [rd EXCEPT ![r].pc = "done", ![r].size = 0, ![r].err = "EOF"]
  /\ UNCHANGED <<daitaVars, isIpv4, ipConnectionId, localPort, closed, shutdownChan,
                 socketShutdown, writeRecv, readRecv, wr, rc, sn, ctl>>

\* multihopBind.Send up to its select: take the buffer of a parked Read, or
\* return net.ErrClosed, or park
Send(s, payloads) ==
  /\ CanStart(sn, s)
  /\ ctl' = [ctl EXCEPT !.calls = @ + 1]
  /\ \E payload \in payloads :
       LET call == [sn[s] EXCEPT !.payload = payload,
                                 !.late = (shutdownChan = "closed"),
                                 !.prevDone = PrevReturned(sn, s),
                                 !.startBind = ctl.bind]
       IN \/ /\ bindClosedReady
             /\ sn' = [sn EXCEPT ![s] = [call EXCEPT !.pc = "done", !.err = "ErrClosed"]]
             /\ UNCHANGED <<rd, readRecv>>
          \/ /\ readRecv.sendq # <<>>
             /\ LET r == Head(readRecv.sendq)
                IN /\ sn' = [sn EXCEPT ![s] = [call EXCEPT !.pc = "taken", !.batch = r]]
                   /\ rd' = [rd EXCEPT ![r].pc = "completion", ![r].by = s]
                   /\ readRecv' = [readRecv EXCEPT !.sendq = Paired(@)]
          \/ /\ ~bindClosedReady /\ readRecv.sendq = <<>>
             /\ sn' = [sn EXCEPT ![s] = [call EXCEPT !.pc = "blocked"]]
             /\ readRecv' = [readRecv EXCEPT !.recvq = Append(@, s)]
             /\ UNCHANGED rd
  /\ UNCHANGED <<daitaVars, isIpv4, ipConnectionId, localPort, closed, shutdownChan,
                 socketShutdown, writeRecv, wr, rc>>

\* A Send woken by Close or by multihopBind.Close: return net.ErrClosed
SendShutdown(s) ==
  /\ sn[s].pc = "woken"
  /\ sn' = [sn EXCEPT ![s].pc = "done", ![s].err = "ErrClosed"]
  /\ UNCHANGED <<daitaVars, isIpv4, ipConnectionId, localPort, closed, shutdownChan,
                 socketShutdown, writeRecv, readRecv, wr, rc, rd, ctl>>

\* Mutant: Send returns the encode error before it sends the batch back.
sendCompletesOnSuccess(res) == ~res.panic /\ res.err = None

\* Whether Send reaches packetBatch.completion <- packetBatch: whenever
\* writePayload returns, with or without an error
sendCompletes(res) == ~res.panic

\* multihopBind.Send after its select: writePayload into the Read buffer past
\* its offset, set the batch's size, send it back, return writePayload's error
SendDeliver(s) ==
  /\ sn[s].pc = "taken"
  /\ LET r == sn[s].batch
         res == writePayload(From(rd[r].buf, rd[r].offset), sn[s].payload)
     IN IF sendCompletes(res)
        THEN /\ sn' = [sn EXCEPT ![s].pc = "done", ![s].size = res.size,
                                 ![s].err = res.err]
             /\ rd' = [[rd EXCEPT ![r].buf = Splice(@, rd[r].offset, res.target)]
                        EXCEPT ![completion(rd, r)].pc = "done",
                               ![completion(rd, r)].size =
                                 ReadReturn(rd[r], [size |-> res.size])]
        ELSE /\ sn' = [sn EXCEPT ![s].pc = IF res.panic THEN "panicked" ELSE "done",
                                 ![s].err = res.err]
             /\ rd' = IF res.panic THEN rd
                      ELSE [rd EXCEPT ![r].buf = Splice(@, rd[r].offset, res.target)]
  /\ UNCHANGED <<daitaVars, isIpv4, ipConnectionId, localPort, closed, shutdownChan,
                 socketShutdown, writeRecv, readRecv, wr, rc, ctl>>

\* The calls parked in a select that has the case <-st.shutdownChan
Parked(calls) == {p \in DOMAIN calls : calls[p].pc = "blocked"}

\* The Send and receive calls parked on the channel st.socketShutdown holds now
ParkedOn(calls) == {p \in Parked(calls) : ~calls[p].stale}

\* close(ch) wakes the calls parked on ch; each takes the case of ch
Wake(calls, woken) ==
  [p \in DOMAIN calls |->
     IF p \in woken THEN [calls[p] EXCEPT !.pc = "woken"] ELSE calls[p]]

\* MultihopTun.Close: set the closed flag, close(st.shutdownChan); closing the
\* channel a second time panics
Close ==
  /\ ctl.ops < MaxCtlCalls
  /\ closed' = TRUE
  /\ IF shutdownChan = "closed"
     THEN /\ ctl' = [ctl EXCEPT !.ops = @ + 1, !.closePanics = @ + 1]
          /\ UNCHANGED <<shutdownChan, writeRecv, readRecv, wr, rc, rd, sn>>
     ELSE /\ ctl' = [ctl EXCEPT !.ops = @ + 1]
          /\ shutdownChan' = "closed"
          /\ writeRecv' = [sendq |-> <<>>, recvq |-> <<>>]
          /\ readRecv' = [sendq |-> <<>>, recvq |-> <<>>]
          /\ wr' = Wake([w \in Writers |-> [wr[w] EXCEPT !.atClose = (wr[w].pc = "blocked")]],
                        Parked(wr))
          /\ rd' = Wake([r \in Readers |-> [rd[r] EXCEPT !.atClose = (rd[r].pc = "blocked")]],
                        Parked(rd))
          /\ rc' = Wake([v \in Receivers |-> [rc[v] EXCEPT !.atClose = (rc[v].pc = "blocked"),
                                             !.stale = FALSE]],
                        Parked(rc))
          /\ sn' = Wake([s \in Senders |-> [sn[s] EXCEPT !.atClose = (sn[s].pc = "blocked"),
                                           !.stale = FALSE]],
                        Parked(sn))
  /\ UNCHANGED <<daitaVars, isIpv4, ipConnectionId, localPort, socketShutdown>>

\* multihopBind.Close: close(st.socketShutdown) unless it is closed already
BindClose ==
  /\ ctl.ops < MaxCtlCalls
  /\ ctl' = [ctl EXCEPT !.ops = @ + 1, !.bind = "closed"]
  /\ IF socketShutdown = "closed"
     THEN /\ rc' = [v \in Receivers |->
                      [rc[v] EXCEPT !.closeDuring = @ \/ rc[v].pc = "blocked"]]
          /\ sn' = [s \in Senders |->
                      [sn[s] EXCEPT !.closeDuring = @ \/ sn[s].pc = "blocked"]]
          /\ UNCHANGED <<socketShutdown, writeRecv, readRecv>>
     ELSE /\ socketShutdown' = "closed"
          /\ writeRecv' = [writeRecv EXCEPT
                             !.recvq = Dequeue(@, ParkedOn(rc))]
          /\ readRecv' = [readRecv EXCEPT
                            !.recvq = Dequeue(@, ParkedOn(sn))]
          /\ rc' = Wake([v \in Receivers |->
                           [rc[v] EXCEPT !.closeDuring = @ \/ rc[v].pc = "blocked"]],
                        ParkedOn(rc))
          /\ sn' = Wake([s \in Senders |->
                           [sn[s] EXCEPT !.closeDuring = @ \/ sn[s].pc = "blocked"]],
                        ParkedOn(sn))
  /\ UNCHANGED <<daitaVars, isIpv4, ipConnectionId, localPort, closed, shutdownChan, wr, rd>>

\* Mutant: Open keeps the socket-shutdown channel the bind holds.
KeepSocketShutdown == socketShutdown

\* The channel Open stores in st.socketShutdown: make(chan struct{})
NewSocketShutdown == "open"

\* The port Open stores in st.localPort
OpenLocalPort(port, r) == IF port # 0 THEN port ELSE RandPort(r)

\* multihopBind.Open: set the local port, replace the socket-shutdown channel,
\* return the local port
Open(ports, rands) ==
  /\ ctl.ops < MaxCtlCalls
  /\ \E port \in ports, r \in rands :
       /\ localPort' = OpenLocalPort(port, r)
       /\ socketShutdown' = NewSocketShutdown
       /\ ctl' = [ctl EXCEPT !.ops = @ + 1, !.opened = TRUE, !.openPort = port,
                             !.actualPort = localPort',
                             !.bind = IF @ = "new" THEN "new" ELSE "reopened"]
  /\ rc' = [v \in Receivers |-> [rc[v] EXCEPT !.stale = (rc[v].pc = "blocked")]]
  /\ sn' = [s \in Senders |-> [sn[s] EXCEPT !.stale = (sn[s].pc = "blocked")]]
  /\ UNCHANGED <<daitaVars, isIpv4, ipConnectionId, closed, shutdownChan,
                 writeRecv, readRecv, wr, rd>>

\* One call of each operation, every input.
Next ==
  \/ Write("w1", WriteInputs) \/ WriteShutdown("w1")
  \/ Receive("v1", RecvBufLens) \/ ReceiveShutdown("v1") \/ ReceiveDeliver("v1")
  \/ Read("r1", ReadInputs) \/ ReadShutdown("r1")
  \/ Send("s1", Payloads) \/ SendShutdown("s1") \/ SendDeliver("s1")
  \/ Close
  \/ BindClose
  \/ Open(OpenPorts, RandWords)

Spec == Init /\ [][Next]_vars

\* The inputs of the concurrent calls: one packet, one buffer, one payload.
ConcWriteInputs == {in \in WriteInputs : in.src = None /\ in.packet # NonIpPacket}
ConcReadInputs == {in \in ReadInputs : in.offset = 2}
ConcRecvBufLens == {MaxPayloadLen + 1}
ConcPayloads == {x \in Payloads : Len(x) = MaxPayloadLen}
ConcRandWords == {ConnectionRand}

\* Up to MaxCalls calls, two of each operation at a time.
ConcNext ==
  \/ \E w \in Writers : Write(w, ConcWriteInputs) \/ WriteShutdown(w)
  \/ \E v \in Receivers :
       Receive(v, ConcRecvBufLens) \/ ReceiveShutdown(v) \/ ReceiveDeliver(v)
  \/ \E r \in Readers : Read(r, ConcReadInputs) \/ ReadShutdown(r)
  \/ \E s \in Senders : Send(s, ConcPayloads) \/ SendShutdown(s) \/ SendDeliver(s)
  \/ Close
  \/ BindClose
  \/ Open({0}, ConcRandWords)

ConcSpec == Init /\ [][ConcNext]_vars

\* Two calls of each operation at a time on an open tun, with packets and
\* payloads of different lengths.
PairNext ==
  \/ \E w \in Writers : Write(w, WriteInputs)
  \/ \E v \in Receivers : Receive(v, ConcRecvBufLens) \/ ReceiveDeliver(v)
  \/ \E r \in Readers : Read(r, ConcReadInputs)
  \/ \E s \in Senders : Send(s, Payloads) \/ SendDeliver(s)
  \/ Open({0}, ConcRandWords)

PairSpec == Init /\ [][PairNext]_vars

\* A call woken by a close returns.
Return ==
  \/ \E w \in Writers : WriteShutdown(w)
  \/ \E r \in Readers : ReadShutdown(r)
  \/ \E v \in Receivers : ReceiveShutdown(v)
  \/ \E s \in Senders : SendShutdown(s)

\* The scheduler runs a goroutine that can run: while a woken call has not
\* returned, one of them does.
Fairness == WF_vars(Return)

\* The concurrent calls with Open and Close of the tun, under that scheduler.
ShutdownNext ==
  \/ \E w \in Writers : Write(w, ConcWriteInputs) \/ WriteShutdown(w)
  \/ \E v \in Receivers :
       Receive(v, ConcRecvBufLens) \/ ReceiveShutdown(v) \/ ReceiveDeliver(v)
  \/ \E r \in Readers : Read(r, ConcReadInputs) \/ ReadShutdown(r)
  \/ \E s \in Senders : Send(s, ConcPayloads) \/ SendShutdown(s) \/ SendDeliver(s)
  \/ Close
  \/ Open({0}, ConcRandWords)

ShutdownSpec == Init /\ [][ShutdownNext]_vars /\ Fairness

\* ------------------------------------------------------------ DAITA

\* The event type and the packet length the emitters are called with.
NonpaddingSent == 0
EventTypes == {NonpaddingSent}
PacketLens == {100}

\* The timeouts of the actions the engine returns.
Timeouts == {1, 2}

\* The tags of MaybenotAction.
TagCancel == 0
TagInjectPadding == 1
TagBlockOutgoing == 2

\* What the pooled message buffer holds where the padding packet is sliced:
\* zeroes when it is new, the bytes of the packet before when it is reused.
LeftoverBytes == {0, 69}

\* A MaybenotAction_InjectPadding of machine m.
Inject(m, timeout, size) ==
  [tag |-> TagInjectPadding, machine |-> m, timeout |-> timeout, size |-> size]

\* An action of another tag of machine m.
Other(tag, m) == [tag |-> tag, machine |-> m, timeout |-> 0, size |-> 0]

\* What maybenot_on_event may write to newActionsBuf: at most one action per
\* machine.
Replies ==
  {<<>>, <<Other(TagCancel, 1)>>, <<Inject(1, 1, 0)>>,
   <<Other(TagBlockOutgoing, 1), Inject(2, 1, 100)>>,
   <<Inject(1, 1, 100), Inject(2, 2, 100)>>}
    \cup {<<Inject(1, d, 100)>> : d \in Timeouts}

\* The replies of an engine with one machine and one timeout.
OneMachineReplies == {<<>>, <<Inject(1, 1, 100)>>}

\* Whether no action of newActions falls due after the last instant of the
\* clock when it is returned at time t
InTime(newActions, t) ==
  \A i \in DOMAIN newActions : t + newActions[i].timeout <= MaxTime

\* maybenotActionToGo: the Action of a MaybenotAction_InjectPadding, due at
\* now.Add(timeout); id numbers the actions in the order the worker made them
maybenotActionToGo(action_c, t, id) ==
  [id |-> id, machine |-> action_c.machine, time |-> t + action_c.timeout,
   actionType |-> ActionTypeInjectPadding, byteCount |-> U16(action_c.size)]

\* Mutant: an action of another tag ends the loop over newActions.
break(rest) == <<>>

\* continue in the loop over newActions: the actions after the skipped one
\* are still handled
continue(rest) == rest

RECURSIVE handleActions(_, _, _, _)

\* The loop of handleEvent over newActions: an action of another tag than
\* InjectPadding is logged and skipped, an InjectPadding is stored in
\* machineActions under its machine, replacing the action stored there; log
\* notes the actions replaced, the ones pending when a Cancel was skipped,
\* and the number of BlockOutgoing skipped
handleActions(newActions, pending, t, log) ==
  IF newActions = <<>> THEN [pending |-> pending, log |-> log]
  ELSE LET a == Head(newActions)
       IN IF a.tag # TagInjectPadding
          THEN handleActions(continue(Tail(newActions)), pending, t,
                 IF a.tag = TagCancel /\ pending[a.machine] # NilAction
                 THEN [log EXCEPT !.cancelled = @ \cup {pending[a.machine].id}]
                 ELSE IF a.tag = TagBlockOutgoing
                 THEN [log EXCEPT !.blocks = @ + 1]
                 ELSE log)
          ELSE handleActions(Tail(newActions),
                 [pending EXCEPT ![a.machine] = maybenotActionToGo(a, t, log.injects + 1)],
                 t,
                 IF pending[a.machine] = NilAction
                 THEN [log EXCEPT !.injects = @ + 1]
                 ELSE [log EXCEPT !.injects = @ + 1,
                                  !.superseded = @ \cup {pending[a.machine].id},
                                  !.superseding = @ \cup {log.injects + 1}])

\* Whether a send on channel ch proceeds at once: a slot of its buffer is
\* free, or it has no buffer and its receiver is parked on it
CanSend(ch, receiverParked) ==
  Len(ch.buf) < ch.cap \/ (ch.cap = 0 /\ receiverParked /\ ch.buf = <<>>)

\* make(chan T, capacity)
MakeChan(capacity) == [buf |-> <<>>, cap |-> capacity, closed |-> FALSE]

\* The machines with an action in machineActions
Pending == {m \in Machines : machineActions[m] # NilAction}

\* The machines whose pending action is due first
Earliest ==
  {m \in Pending : \A k \in Pending : machineActions[m].time <= machineActions[k].time}

\* The capacities the channels are made with.
EventsCapacities == {1}
QueueCapacities == {1, 2}
ActionsCapacities == {1}

\* Mutant: a second call replaces the instance.
EnableAgain(kind, eventsCapacities) ==
  /\ dlog.calls < MaxDaitaCalls
  /\ \E ec \in eventsCapacities, ac \in ActionsCapacities :
       /\ events' = MakeChan(ec)
       /\ actions' = MakeChan(ac)
       /\ machineActions' = [m \in Machines |-> NilAction]
       /\ maybenot' = [maybenot EXCEPT !.started = @ + 1]
       /\ eventWorker' = [pc |-> "select", action |-> NilAction,
                          spawned |-> eventWorker.spawned + 1]
       /\ actionWorker' = [pc |-> "range", spawned |-> actionWorker.spawned + 1]
       /\ peerDaita' = kind
       /\ dlog' = [dlog EXCEPT !.calls = @ + 1, !.enabled = Append(@, TRUE)]
  /\ UNCHANGED <<tunVars, closer, staged, now>>

\* Mutant: a call whose maybenot_start fails leaves an instance set.
startFailedActive(kind) ==
  /\ dlog' = [dlog EXCEPT !.calls = @ + 1, !.enabled = Append(@, FALSE)]
  /\ peerDaita' = kind
  /\ UNCHANGED <<events, actions, machineActions, maybenot, eventWorker, actionWorker>>

\* EnableDaita and ActivateDaita when maybenot_start fails: false is returned
\* before a channel, a goroutine or the instance is made
startFailed(kind) ==
  /\ dlog' = [dlog EXCEPT !.calls = @ + 1, !.enabled = Append(@, FALSE)]
  /\ UNCHANGED <<peerDaita, events, actions, machineActions, maybenot,
                 eventWorker, actionWorker>>

\* EnableDaita and ActivateDaita: false when an instance is set or when
\* maybenot_start fails; else the two channels and the map are made, the two
\* goroutines started and the instance stored. Daita's HandleDaitaActions is
\* started before device.Daita is assigned and reads device.Daita.actions:
\* it may read the nil pointer.
Enable(kind, eventsCapacities) ==
  /\ dlog.calls < MaxDaitaCalls
  /\ \/ /\ peerDaita # "nil"
        /\ dlog' = [dlog EXCEPT !.calls = @ + 1, !.enabled = Append(@, FALSE)]
        /\ UNCHANGED <<peerDaita, events, actions, machineActions, maybenot,
                       eventWorker, actionWorker>>
     \/ /\ peerDaita = "nil"
        /\ startFailed(kind)
     \/ /\ peerDaita = "nil"
        /\ \E ec \in eventsCapacities, ac \in ActionsCapacities :
             /\ events' = MakeChan(ec)
             /\ actions' = MakeChan(ac)
        /\ machineActions' = [m \in Machines |-> NilAction]
        /\ maybenot' = [maybenot EXCEPT !.started = @ + 1]
        /\ eventWorker' = [pc |-> "select", action |-> NilAction,
                           spawned |-> eventWorker.spawned + 1]
        /\ \E hpc \in (IF kind = "Daita" THEN {"range", "panicked"} ELSE {"range"}) :
             actionWorker' = [pc |-> hpc, spawned |-> actionWorker.spawned + 1]
        /\ peerDaita' = kind
        /\ dlog' = [dlog EXCEPT !.calls = @ + 1, !.enabled = Append(@, TRUE)]
  /\ UNCHANGED <<tunVars, closer, staged, now>>

EnableDaita(eventsCapacities) ==
  peerDaita \in {"nil", "MaybenotDaita"} /\ Enable("MaybenotDaita", eventsCapacities)

ActivateDaita(eventsCapacities) ==
  peerDaita \in {"nil", "Daita"} /\ Enable("Daita", eventsCapacities)

\* Mutant: a full channel gives up its oldest event to take the new one.
EventEvicting(types, lens) ==
  /\ peerDaita # "nil"
  /\ dlog.emits < MaxEvents
  /\ ~events.closed
  /\ \E t \in types, len \in lens :
       LET event == [id |-> dlog.emits + 1, eventType |-> t, xmitBytes |-> U16(len)]
       IN /\ events' = [events EXCEPT !.buf =
                          IF CanSend(events, eventWorker.pc = "select")
                          THEN Append(@, event) ELSE Append(Tail(@), event)]
          /\ dlog' = [dlog EXCEPT !.emits = @ + 1]
  /\ UNCHANGED <<tunVars, peerDaita, actions, machineActions, maybenot, eventWorker,
                 actionWorker, closer, staged, now>>

\* MaybenotDaita.Event and Daita.sendEvent: the event is sent if the channel
\* takes it at once and dropped if not; a send on a closed channel panics.
\* dlog notes the events dropped and those queued behind another
Event(types, lens) ==
  /\ peerDaita # "nil"
  /\ dlog.emits < MaxEvents
  /\ \E t \in types, len \in lens :
       LET event == [id |-> dlog.emits + 1, eventType |-> t, xmitBytes |-> U16(len)]
       IN IF events.closed
          THEN /\ dlog' = [dlog EXCEPT !.emits = @ + 1, !.emitPanics = @ + 1]
               /\ UNCHANGED events
          ELSE IF CanSend(events, eventWorker.pc = "select")
          THEN /\ events' = [events EXCEPT !.buf = Append(@, event)]
               /\ dlog' = [dlog EXCEPT !.emits = @ + 1,
                                       !.behind = IF events.buf = <<>> THEN @
                                                  ELSE @ \cup {event.id}]
          ELSE /\ dlog' = [dlog EXCEPT !.emits = @ + 1, !.dropped = @ \cup {event.id}]
               /\ UNCHANGED events
  /\ UNCHANGED <<tunVars, peerDaita, actions, machineActions, maybenot, eventWorker,
                 actionWorker, closer, staged, now>>

\* Mutant: a receive takes the value sent last.
receiveNewest(ch) ==
  [value |-> ch.buf[Len(ch.buf)], rest |-> SubSeq(ch.buf, 1, Len(ch.buf) - 1)]

\* <-ch on a channel that holds a value: the value sent first, and what the
\* channel holds after
receive(ch) == [value |-> Head(ch.buf), rest |-> Tail(ch.buf)]

\* handleEvent: maybenot_on_event is called with the event and the actions it
\* returns are stored
handleEvent(event, newActions) ==
  LET r == handleActions(newActions, machineActions, now, dlog)
  IN /\ maybenot' = [maybenot EXCEPT !.onEvent = Append(@, event.id),
                                     !.usedAfterStop = @ \/ maybenot.stopped > 0]
     /\ machineActions' = r.pending
     /\ dlog' = r.log

\* Mutant: the worker goes on with its loop after maybenot_stop.
afterStopLoop == "select"

\* Where the worker is after maybenot_stop: handleEvents has returned
afterStop == "stopped"

\* handleEvents, the events case of the select: Daita stops the engine and
\* returns on the nil event; MaybenotDaita breaks out of the select, not of
\* the loop, when the channel is closed; else the event is handled
ReceiveEvent(replies) ==
  /\ eventWorker.pc = "select"
  /\ \/ /\ events.buf # <<>>
        /\ events' = [events EXCEPT !.buf = receive(events).rest]
        /\ IF receive(events).value = NilEvent
           THEN /\ maybenot' = [maybenot EXCEPT !.stopped = @ + 1]
                /\ eventWorker' = [eventWorker EXCEPT !.pc = afterStop]
                /\ UNCHANGED <<machineActions, dlog>>
           ELSE /\ \E newActions \in {r \in replies : InTime(r, now)} :
                     handleEvent(receive(events).value, newActions)
                /\ UNCHANGED eventWorker
     \/ /\ events.buf = <<>>
        /\ events.closed
        /\ eventWorker' = [eventWorker EXCEPT !.pc = "loop"]
        /\ UNCHANGED <<events, machineActions, maybenot, dlog>>
  /\ UNCHANGED <<tunVars, peerDaita, actions, actionWorker, closer, staged, now>>

\* handleEvents, the top of the loop after the break
LoopAgain ==
  /\ eventWorker.pc = "loop"
  /\ eventWorker' = [eventWorker EXCEPT !.pc = "select"]
  /\ UNCHANGED <<tunVars, peerDaita, events, actions, machineActions, maybenot,
                 actionWorker, closer, staged, now, dlog>>

\* The machine *nextActionMachine names in the timer case. It is &machine of
\* the range loop over machineActions: with one variable per iteration the
\* machine whose action is due first, with one variable for the whole loop
\* (Go before 1.22) the machine the loop visited last, which is any of them.
nextActionMachine == Earliest \cup Pending

\* daita.actions <- action (SendAction in Daita) by the worker holding action:
\* on a closed channel the send panics, and so does close(daita.actions) in
\* the deferred function, before maybenot_stop; else the send waits for room
\* in the channel
sendOnActions(action) ==
  IF actions.closed
  THEN /\ eventWorker' = [eventWorker EXCEPT !.pc = "panicked", !.action = NilAction]
       /\ UNCHANGED actions
  ELSE IF CanSend(actions, actionWorker.pc = "range")
  THEN /\ actions' = [actions EXCEPT !.buf = Append(@, action)]
       /\ eventWorker' = [eventWorker EXCEPT !.pc = "select", !.action = NilAction]
  ELSE /\ eventWorker' = [eventWorker EXCEPT !.pc = "send", !.action = action]
       /\ UNCHANGED actions

\* handleEvents, the timer case of the select: the timer was set to the least
\* time until an action; the action of *nextActionMachine is taken out of the
\* map and sent on the actions channel
TimerFires ==
  /\ eventWorker.pc = "select"
  /\ \E m \in Pending : machineActions[m].time <= now
  /\ \E m \in nextActionMachine :
       /\ machineActions' = [machineActions EXCEPT ![m] = NilAction]
       /\ sendOnActions(machineActions[m])
  /\ UNCHANGED <<tunVars, peerDaita, events, maybenot, actionWorker,
                 closer, staged, now, dlog>>

\* handleEvents, the send of the timer case when it had to wait
SendAction ==
  /\ eventWorker.pc = "send"
  /\ actions.closed \/ CanSend(actions, actionWorker.pc = "range")
  /\ sendOnActions(eventWorker.action)
  /\ UNCHANGED <<tunVars, peerDaita, events, machineActions, maybenot, actionWorker,
                 closer, staged, now, dlog>>

\* The padding packet HandleDaitaActions makes of an action: size bytes of the
\* pooled buffer, of which the first is set to the marker; of the bytes of
\* the header the others keep what the buffer held
PaddingPacket(action, size, leftover) ==
  [id |-> action.id, machine |-> action.machine, due |-> action.time,
   early |-> now < action.time, byteCount |-> action.byteCount,
   size |-> size,
   header |-> [i \in 1..(IF size < DaitaHeaderLen THEN size ELSE DaitaHeaderLen) |->
                 IF i = 1 THEN DaitaPaddingMarker ELSE leftover]]

\* Mutant: no size is invalid.
invalidSizeNever(size) == FALSE

\* The sizes HandleDaitaActions logs as invalid and skips: zero, and in Daita
\* also those above MaxContentSize
invalidSize(size) == size = 0 \/ (peerDaita = "Daita" /\ size > MaxContentSize)

\* HandleDaitaActions, one round of the loop over the actions channel: the nil
\* action ends Daita's loop and the closed channel MaybenotDaita's; an action
\* of size zero (in Daita, also one above MaxContentSize) is skipped; else
\* the padding packet is staged
HandleDaitaActions ==
  /\ actionWorker.pc = "range"
  /\ \/ /\ actions.buf # <<>>
        /\ actions' = [actions EXCEPT !.buf = receive(actions).rest]
        /\ LET action == receive(actions).value
           IN IF action = NilAction
              THEN /\ actionWorker' = [actionWorker EXCEPT !.pc = "stopped"]
                   /\ UNCHANGED <<staged, dlog>>
              ELSE LET size == action.byteCount
                   IN IF \/ invalidSize(size)
                         \/ peerDaita = "MaybenotDaita" /\
                              action.actionType # ActionTypeInjectPadding
                      THEN /\ dlog' = [dlog EXCEPT !.skipped = @ \cup {action.id}]
                           /\ UNCHANGED <<actionWorker, staged>>
                      ELSE /\ \E leftover \in LeftoverBytes :
                                staged' = Append(staged,
                                                 PaddingPacket(action, size, leftover))
                           /\ UNCHANGED <<actionWorker, dlog>>
     \/ /\ actions.buf = <<>>
        /\ actions.closed
        /\ actionWorker' = [actionWorker EXCEPT !.pc = "stopped"]
        /\ UNCHANGED <<actions, staged, dlog>>
  /\ UNCHANGED <<tunVars, peerDaita, events, machineActions, maybenot, eventWorker,
                 closer, now>>

\* Disable, close(daita.actions): panics on the closed channel.
\* Daita.Close, daita.actions <- nil: waits for room in the channel
closeActions ==
  IF peerDaita = "MaybenotDaita"
  THEN IF actions.closed
       THEN /\ closer' = [closer EXCEPT !.pc = "idle", !.panics = @ + 1]
            /\ UNCHANGED actions
       ELSE /\ actions' = [actions EXCEPT !.closed = TRUE]
            /\ closer' = [closer EXCEPT !.pc = "events"]
  ELSE IF CanSend(actions, actionWorker.pc = "range")
  THEN /\ actions' = [actions EXCEPT !.buf = Append(@, NilAction)]
       /\ closer' = [closer EXCEPT !.pc = "events"]
  ELSE /\ closer' = [closer EXCEPT !.pc = "actions"]
       /\ UNCHANGED actions

\* Disable and Daita.Close are called, up to the end of the first statement
Disable ==
  /\ peerDaita # "nil"
  /\ closer.pc = "idle"
  /\ dlog.calls < MaxDaitaCalls
  /\ dlog' = [dlog EXCEPT !.calls = @ + 1,
                          !.atClose = @ \cup {machineActions[m].id : m \in Pending}]
  /\ closeActions
  /\ UNCHANGED <<tunVars, peerDaita, events, machineActions, maybenot,
                 eventWorker, actionWorker, staged, now>>

\* Daita.Close, the send of nil on the actions channel when it had to wait
CloseActions ==
  /\ closer.pc = "actions"
  /\ CanSend(actions, actionWorker.pc = "range")
  /\ closeActions
  /\ UNCHANGED <<tunVars, peerDaita, events, machineActions, maybenot, eventWorker,
                 actionWorker, staged, now, dlog>>

\* Disable, close(daita.events), and Daita.Close, daita.Events <- nil; the
\* call returns
CloseEvents ==
  /\ closer.pc = "events"
  /\ IF peerDaita = "MaybenotDaita"
     THEN events' = [events EXCEPT !.closed = TRUE]
     ELSE /\ CanSend(events, eventWorker.pc = "select")
          /\ events' = [events EXCEPT !.buf = Append(@, NilEvent)]
  /\ closer' = [closer EXCEPT !.pc = "idle", !.returned = @ + 1]
  /\ UNCHANGED <<tunVars, peerDaita, actions, machineActions, maybenot, eventWorker,
                 actionWorker, staged, now, dlog>>

\* Time passes
Tick ==
  /\ now < MaxTime
  /\ now' = now + 1
  /\ UNCHANGED <<tunVars, peerDaita, events, actions, machineActions, maybenot,
                 eventWorker, actionWorker, closer, staged, dlog>>

\* DAITA while it stays enabled: events, the engine's actions, timers and
\* padding packets.
DaitaNext ==
  \/ EnableDaita(EventsCapacities)
  \/ ActivateDaita(EventsCapacities)
  \/ Event(EventTypes, PacketLens)
  \/ ReceiveEvent(Replies)
  \/ TimerFires
  \/ SendAction
  \/ HandleDaitaActions
  \/ Tick

\* DAITA enabled and closed, with an engine of one machine and an events
\* channel that holds up to two events.
DaitaCloseNext ==
  \/ EnableDaita(QueueCapacities)
  \/ ActivateDaita(QueueCapacities)
  \/ Event(EventTypes, PacketLens)
  \/ ReceiveEvent(OneMachineReplies)
  \/ LoopAgain
  \/ TimerFires
  \/ SendAction
  \/ HandleDaitaActions
  \/ Disable
  \/ CloseActions
  \/ CloseEvents
  \/ Tick

DaitaInit == Init /\ isIpv4

DaitaSpec == DaitaInit /\ [][DaitaNext]_vars

DaitaCloseSpec == DaitaInit /\ [][DaitaCloseNext]_vars

\* ------------------------------------------------------------ claims

\* The payload bytes of the written datagram, by the layout of IPv4/IPv6 + UDP:
\* what lies between the headers and the end given by the IP length field.
DatagramPayloadLen(packet, offset) ==
  IF packet[offset + 1] \div 16 = 4
  THEN Uint16At(packet, offset + 3) - IPv4MinimumSize - UDPMinimumSize
  ELSE Uint16At(packet, offset + 5) - UDPMinimumSize

\* C1: a Write has returned (n, nil) if and only if a receive call took its
\* batch and set n, the number of UDP payload bytes it extracted; a Write that
\* returned an error was taken by no receive call, and a Write never returns
\* before the receive call that took its batch has delivered it.
C1_WriteLockstep ==
  /\ \A w \in Writers :
       wr[w].pc = "done" =>
         IF wr[w].err = None
         THEN /\ wr[w].by \in Receivers
              /\ rc[wr[w].by].batch = w
              /\ rc[wr[w].by].pc = "done"
              /\ rc[wr[w].by].err = None
              /\ wr[w].size = rc[wr[w].by].size
              /\ wr[w].size = DatagramPayloadLen(wr[w].packet, wr[w].offset)
         ELSE /\ wr[w].by = None
              /\ \A v \in Receivers : rc[v].batch # w
  /\ \A v \in Receivers :
       (rc[v].pc = "done" /\ rc[v].batch # None) =>
         /\ wr[rc[v].batch].pc = "done"
         /\ wr[rc[v].batch].err = None
         /\ wr[rc[v].batch].by = v

\* C1 witness: two Writes have returned, each with the payload length of its
\* datagram, taken by two different receive calls.
C1_Witness ==
  /\ \A w \in Writers : wr[w].pc = "done" /\ wr[w].err = None /\ wr[w].size > 0
  /\ wr["w1"].by # wr["w2"].by

\* C2: on an IPv4 tun, a Read that returned without error was paired with a
\* Send; when its buffer past the offset held 28 + len(payload) bytes, the Send
\* returned nil, the Read returned 28 + len(payload), and the datagram carries
\* source address local, destination address remote, destination port
\* RemotePort and the payload unchanged.
C2_SendReadV4 ==
  \A r \in Readers :
    (rd[r].pc = "done" /\ rd[r].err = None) =>
      /\ rd[r].by \in Senders
      /\ sn[rd[r].by].batch = r
      /\ LET s == rd[r].by
             x == sn[s].payload
             d == From(rd[r].buf, rd[r].offset)
         IN (isIpv4 /\ Len(d) >= 28 + Len(x)) =>
              /\ sn[s].pc = "done" /\ sn[s].err = None
              /\ rd[r].size = 28 + Len(x)
              /\ SubSeq(d, 13, 16) = V4Local
              /\ SubSeq(d, 17, 20) = V4Remote
              /\ Uint16At(d, 23) = RemotePort
              /\ SubSeq(d, 29, 28 + Len(x)) = x

\* C2 witness: an IPv4 Read returned a datagram with a payload of MaxPayloadLen
\* bytes.
C2_Witness ==
  \E r \in Readers :
    /\ isIpv4 /\ rd[r].pc = "done" /\ rd[r].err = None
    /\ rd[r].size = 28 + MaxPayloadLen

\* C3: every Write, Read, Send and receive call that is parked in its select
\* when MultihopTun.Close closes the shutdown channel eventually returns the
\* closed error: io.EOF for Write and Read, net.ErrClosed for Send and receive.
C3_BlockedReturnClosed ==
  (shutdownChan = "closed") ~>
    /\ \A w \in Writers : wr[w].atClose => wr[w].pc = "done" /\ wr[w].err = "EOF"
    /\ \A r \in Readers : rd[r].atClose => rd[r].pc = "done" /\ rd[r].err = "EOF"
    /\ \A v \in Receivers :
         rc[v].atClose => rc[v].pc = "done" /\ rc[v].err = "ErrClosed"
    /\ \A s \in Senders :
         sn[s].atClose => sn[s].pc = "done" /\ sn[s].err = "ErrClosed"

\* C3 witness: a Write and a Send that were parked at Close have returned,
\* the Write io.EOF and the Send net.ErrClosed.
C3_Witness ==
  /\ \E w \in Writers : wr[w].atClose /\ wr[w].pc = "done" /\ wr[w].err = "EOF"
  /\ \E s \in Senders :
       sn[s].atClose /\ sn[s].pc = "done" /\ sn[s].err = "ErrClosed"

\* C4: a Write, Read, Send or receive call that starts after MultihopTun.Close
\* has closed the shutdown channel returns the closed error, and takes part in
\* no hand-over of a batch.
C4_AfterCloseClosed ==
  /\ \A w \in Writers :
       wr[w].late => wr[w].pc = "done" /\ wr[w].err = "EOF" /\ wr[w].by = None
  /\ \A r \in Readers :
       rd[r].late => rd[r].pc = "done" /\ rd[r].err = "EOF" /\ rd[r].by = None
  /\ \A v \in Receivers :
       rc[v].late => rc[v].pc = "done" /\ rc[v].err = "ErrClosed" /\ rc[v].batch = None
  /\ \A s \in Senders :
       sn[s].late => sn[s].pc = "done" /\ sn[s].err = "ErrClosed" /\ sn[s].batch = None

\* C4 witness: a Read was parked when Close was called, and a Send that
\* started after Close returned net.ErrClosed without taking its buffer.
C4_Witness ==
  \E r \in Readers, s \in Senders :
    rd[r].atClose /\ sn[s].late /\ sn[s].pc = "done" /\ rd[r].by = None

\* C5: MultihopTun.Close may be called any number of times; no call of it
\* panics.
C5_CloseNeverPanics == ctl.closePanics = 0

\* C6: multihopBind.Close closes only the bind's socket-shutdown channel: a
\* Send or receive call that starts while the bind is closed returns
\* net.ErrClosed and takes no batch, and the call leaves the tun's shutdown
\* channel, its closed flag and every Write and Read as they are.
C6_BindCloseOnlyBind ==
  /\ [](/\ \A v \in Receivers :
             (rc[v].startBind = "closed" /\ rc[v].pc # "idle") =>
               rc[v].pc = "done" /\ rc[v].err = "ErrClosed" /\ rc[v].batch = None
        /\ \A s \in Senders :
             (sn[s].startBind = "closed" /\ sn[s].pc # "idle") =>
               sn[s].pc = "done" /\ sn[s].err = "ErrClosed" /\ sn[s].batch = None)
  /\ [][BindClose => /\ shutdownChan' = shutdownChan
                     /\ closed' = closed
                     /\ wr' = wr
                     /\ rd' = rd]_vars

\* C7: a Send or receive call returns net.ErrClosed only if the tun was closed,
\* or the bind was closed when the call started and not opened since, or
\* multihopBind.Close was called during the call: a call that starts after
\* Close followed by Open is not failed by the earlier Close.
C7_OpenResetsLatch ==
  /\ \A v \in Receivers :
       (rc[v].pc = "done" /\ rc[v].err = "ErrClosed") =>
         shutdownChan = "closed" \/ rc[v].startBind = "closed" \/ rc[v].closeDuring
  /\ \A s \in Senders :
       (sn[s].pc = "done" /\ sn[s].err = "ErrClosed") =>
         shutdownChan = "closed" \/ sn[s].startBind = "closed" \/ sn[s].closeDuring

\* C7 witness: after multihopBind.Close and then Open, a Send and a receive
\* call on the new socket channel paired with a Read and a Write and
\* returned without error.
C7_Witness ==
  \E s \in Senders, v \in Receivers :
    /\ shutdownChan = "open"
    /\ sn[s].startBind = "reopened" /\ rc[v].startBind = "reopened"
    /\ sn[s].pc = "done" /\ sn[s].err = None /\ rd[sn[s].batch].pc = "done"
    /\ rc[v].pc = "done" /\ rc[v].err = None /\ wr[rc[v].batch].pc = "done"

\* Whether the Read buffer handed to Send s holds the datagram of its payload.
Fits(s) ==
  headerSize + Len(sn[s].payload)
    <= Len(rd[sn[s].batch].buf) - rd[sn[s].batch].offset

\* C8: round trip, on an IPv4 and on an IPv6 tun: a Send whose Read buffer
\* holds the datagram encodes it, and when that datagram is passed to Write,
\* the receive call that takes it returns exactly len(x) bytes equal to x.
C8_RoundTrip ==
  \A s \in Senders :
    (sn[s].batch # None /\ Fits(s)) =>
      /\ sn[s].pc # "panicked"
      /\ \A w \in Writers :
           (wr[w].src = sn[s].batch /\ wr[w].pc = "done" /\ wr[w].err = None) =>
             LET v == wr[w].by
                 x == sn[s].payload
             IN Len(rc[v].out) >= Len(x) =>
                  /\ rc[v].size = Len(x)
                  /\ SubSeq(rc[v].out, 1, Len(x)) = x

\* C8 on an IPv4 tun only: the round trip of C8.
C8_RoundTripV4 == isIpv4 => C8_RoundTrip

\* C8 on IPv4, witness: a datagram read on an IPv4 tun was written back and a
\* receive call returned its payload of MaxPayloadLen bytes.
C8_WitnessV4 ==
  \E w \in Writers :
    /\ isIpv4 /\ wr[w].src # None /\ wr[w].pc = "done" /\ wr[w].err = None
    /\ wr[w].size = MaxPayloadLen

\* C9: when the Read buffer past its offset is shorter than header_size +
\* len(payload), a Send that has returned returned the encode error, and the
\* Read it was paired with has returned 0 bytes and a nil error.
C9_ShortBuffer ==
  \A s \in Senders :
    (sn[s].batch # None /\ ~Fits(s) /\ sn[s].pc = "done") =>
      /\ sn[s].err = "target buffer is too small"
      /\ rd[sn[s].batch].pc = "done"
      /\ rd[sn[s].batch].size = 0
      /\ rd[sn[s].batch].err = None

\* C9 witness: a Send into a buffer that is too short has returned.
C9_Witness ==
  \E s \in Senders : sn[s].batch # None /\ ~Fits(s) /\ sn[s].pc = "done"

\* C10: once Open was called, the tun's local port is the port Open returned,
\* which is the port asked for when that is not 0 and an odd port otherwise;
\* and the UDP source port of every datagram Send encodes is the port the
\* last Open returned.
C10_OpenPort ==
  /\ [](ctl.opened =>
          /\ localPort = ctl.actualPort
          /\ (ctl.openPort # 0 => ctl.actualPort = ctl.openPort)
          /\ (ctl.openPort = 0 => ctl.actualPort % 2 = 1))
  /\ [][\A s \in Senders :
          (sn[s].pc = "taken" /\ sn'[s].pc = "done" /\ sn'[s].err = None) =>
            Uint16At(From(rd'[sn[s].batch].buf, rd[sn[s].batch].offset), 21)
              = ctl.actualPort]_vars

\* C10 witness: Open(0) returned an odd port, and a datagram read afterwards
\* carries it as its UDP source port.
C10_Witness ==
  \E r \in Readers :
    /\ ctl.opened /\ ctl.openPort = 0 /\ ctl.actualPort % 2 = 1
    /\ rd[r].pc = "done" /\ rd[r].size > 0
    /\ Uint16At(From(rd[r].buf, rd[r].offset), 21) = ctl.actualPort

\* C11: when a Write (a Send) starts after the previous Write (Send) of the
\* same producer returned without an error, a receive call (a Read) has
\* already consumed the batch of the previous call: the batch of call k is
\* consumed before the batch of call k+1 is handed over, with two consumers
\* running concurrently.
C11_FifoPerDirection ==
  /\ \A w \in Writers : wr[w].prevDone =>
       \A q \in Earlier(w) :
         /\ wr[q].by # None
         /\ rc[wr[q].by].batch = q /\ rc[wr[q].by].pc = "done"
  /\ \A s \in Senders : sn[s].prevDone =>
       \A q \in Earlier(s) :
         /\ sn[q].batch # None
         /\ rd[sn[q].batch].by = q /\ rd[sn[q].batch].pc = "done"

\* C11 witness: two Writes in a row, the second started after the first
\* returned, were consumed by the two receive calls.
C11_Witness ==
  /\ \E w \in Writers :
       wr[w].prevDone /\ wr[w].pc = "done" /\ wr[w].err = None /\ wr[w].by # None
  /\ \A v \in Receivers : rc[v].pc = "done" /\ rc[v].batch # None


\* The ids of the actions that are in the map, held by the worker, in the
\* actions channel or staged
InMap == {machineActions[m].id : m \in Pending}
Held == IF eventWorker.action = NilAction THEN {} ELSE {eventWorker.action.id}
InChannel == {actions.buf[i].id : i \in DOMAIN actions.buf} \ {0}
StagedIds == {staged[i].id : i \in DOMAIN staged}

\* C12: every InjectPadding of the engine that no later one for its machine
\* superseded causes exactly one padding packet to be staged, not before it is
\* due: no packet is staged before the time of its action, none is staged
\* twice, and an action that was not superseded is on its way (in the map,
\* with the worker or in the channel) or staged
C12_StagedOnceWhenDue ==
  /\ \A i \in DOMAIN staged : ~staged[i].early
  /\ \A i, j \in DOMAIN staged : staged[i].id = staged[j].id => i = j
  /\ \A id \in 1..dlog.injects :
       id \notin dlog.superseded =>
         id \in InMap \cup Held \cup InChannel \cup StagedIds \cup dlog.skipped

\* C13: a machine has at most one InjectPadding pending, and one that arrives
\* while another of its machine is pending supersedes it: the superseded
\* action is gone from the map and is never sent or staged, and the
\* superseding one is not staged before its own time
C13_Supersede ==
  /\ \A m \in Pending : machineActions[m].machine = m
  /\ \A id \in dlog.superseded :
       id \notin InMap \cup Held \cup InChannel \cup StagedIds
  /\ \A i \in DOMAIN staged :
       staged[i].id \in dlog.superseding => ~staged[i].early

\* C14: when the engine returns Cancel for a machine with an InjectPadding
\* pending, the pending action is removed and no padding packet is staged
\* for it
C14_CancelRemoves ==
  \A id \in dlog.cancelled : id \notin InMap \cup Held \cup InChannel \cup StagedIds

\* C15: every staged padding packet is at least a header long and starts
\* with the marker 0xFF, a zero byte and its total length in two bytes,
\* high byte first
C15_PaddingHeader ==
  \A i \in DOMAIN staged :
    /\ staged[i].size >= DaitaHeaderLen
    /\ Len(staged[i].header) = DaitaHeaderLen
    /\ staged[i].header[1] = DaitaPaddingMarker
    /\ staged[i].header[2] = 0
    /\ staged[i].header[DaitaOffsetTotalLength + 1] = staged[i].size \div 256
    /\ staged[i].header[DaitaOffsetTotalLength + 2] = staged[i].size % 256

\* C16: the padding packet staged for an InjectPadding of byte count b is
\* b + 4 bytes long, the header added to the engine's byte count
C16_SizeWithHeader ==
  \A i \in DOMAIN staged : staged[i].size = staged[i].byteCount + DaitaHeaderLen

\* The ids of the events in the events channel and of those the engine was
\* called with
Queued == {events.buf[i].id : i \in DOMAIN events.buf} \ {0}
Handled == {maybenot.onEvent[i] : i \in DOMAIN maybenot.onEvent}

\* C17: an emitter called when the events channel is full returns with the
\* event dropped, the channel and the engine as they were, and the engine is
\* never called with a dropped event; with capacity 1 and two events emitted
\* before the worker takes one, only the first is on its way to the engine
C17_FullQueueDrops ==
  /\ [](dlog.dropped \cap (Queued \cup Handled) = {})
  /\ [](events.cap = 1 /\ dlog.emits = 2 /\ dlog.dropped = {2} =>
          Queued \cup Handled = {1})
  /\ [][(/\ dlog'.emits = dlog.emits + 1
         /\ ~events.closed
         /\ events.cap > 0 /\ Len(events.buf) = events.cap)
          => /\ events' = events
             /\ maybenot' = maybenot
             /\ machineActions' = machineActions
             /\ dlog'.dropped = dlog.dropped \cup {dlog.emits + 1}]_vars

\* Two events were emitted with the first still in the channel of capacity 1,
\* the second was dropped and the engine was called with the first only
C17_Witness ==
  /\ events.cap = 1
  /\ dlog.emits = 2
  /\ dlog.dropped = {2}
  /\ maybenot.onEvent = <<1>>

\* C18: EnableDaita (ActivateDaita) called with DAITA active returns false,
\* starts no engine and no worker, and leaves the instance, its channels, its
\* pending actions and its engine as they were
C18_DoubleEnable ==
  [][(peerDaita # "nil" /\ Len(dlog'.enabled) = Len(dlog.enabled) + 1)
      => /\ dlog'.enabled[Len(dlog'.enabled)] = FALSE
         /\ UNCHANGED <<peerDaita, events, actions, machineActions, maybenot,
                        eventWorker, actionWorker, staged>>]_vars

\* A first call enabled DAITA, the engine was called with an event, and a
\* second call returned false
C18_Witness ==
  /\ dlog.enabled = <<TRUE, FALSE>>
  /\ maybenot.started = 1
  /\ eventWorker.spawned = 1 /\ actionWorker.spawned = 1
  /\ Handled # {}

\* C19: after Disable (Close) the event worker leaves its loop and ends, and
\* maybenot_stop is called exactly once: a worker that has seen the close has
\* ended (it is not back at the top of its loop and has not ended by a
\* panic), and it has ended exactly when maybenot_stop was called, which
\* happens at most once
C19_WorkerStopsOnClose ==
  /\ maybenot.stopped <= 1
  /\ (maybenot.stopped = 1) = (eventWorker.pc = "stopped")
  /\ eventWorker.pc \notin {"loop", "panicked"}

\* C20: a second Disable (Close) returns as the first did: it does not panic
\* on a channel closed before, and it does not wait for ever to send on a
\* channel that is full and whose receiver has ended
C20_CloseIdempotent ==
  /\ closer.panics = 0
  /\ ~(/\ closer.returned >= 1 /\ closer.pc = "actions"
       /\ actionWorker.pc \in {"stopped", "panicked"}
       /\ ~CanSend(actions, FALSE))
  /\ ~(/\ closer.returned >= 1 /\ closer.pc = "events" /\ peerDaita = "Daita"
       /\ eventWorker.pc \in {"stopped", "panicked"}
       /\ ~CanSend(events, FALSE))

\* C21: whatever the interleaving of the emitters with Disable, no emitter
\* sends on the events channel after it was closed
C21_NoSendOnClosedEvents == dlog.emitPanics = 0

\* C22: the events one emitter emits one after the other and the channel
\* accepts are passed to maybenot_on_event in the order they were emitted,
\* each once: the engine is called with increasing events, the channel holds
\* increasing events that all come after the ones handled, and an accepted
\* event is in the channel or was handled
C22_EventOrder ==
  /\ \A i, j \in DOMAIN maybenot.onEvent :
       i < j => maybenot.onEvent[i] < maybenot.onEvent[j]
  /\ \A i, j \in DOMAIN events.buf :
       (i < j /\ events.buf[j] # NilEvent) => events.buf[i].id < events.buf[j].id
  /\ \A h \in Handled, q \in Queued : h < q
  /\ \A id \in 1..dlog.emits :
       (id \notin dlog.dropped /\ dlog.emitPanics = 0) => id \in Queued \cup Handled

\* Two events were in the channel together and the engine was called with
\* the first, then with the second
C22_Witness ==
  /\ 2 \in dlog.behind
  /\ maybenot.onEvent = <<1, 2>>

\* The batches of a direction that a consumer has taken and not sent back
InFlight(calls) == {p \in DOMAIN calls : calls[p].pc = "completion"}

\* The consumer calls that hold a batch
Holding(calls) == {p \in DOMAIN calls : calls[p].pc = "taken"}

\* C23 as stated: in each direction at most one batch is in flight at any
\* time, for any number of concurrent producers and consumers
C23_OneInFlight ==
  /\ Cardinality(InFlight(wr)) <= 1
  /\ Cardinality(InFlight(rd)) <= 1

\* C23, amended: in each direction every batch in flight is held by one
\* consumer call, a consumer call holds one batch and no two hold the same,
\* so that no more batches are in flight than consumer calls are in progress
C23_InFlightPaired ==
  /\ \A w \in InFlight(wr) :
       /\ wr[w].by \in Receivers
       /\ rc[wr[w].by].pc \in {"taken", "panicked"} /\ rc[wr[w].by].batch = w
  /\ \A r \in InFlight(rd) :
       /\ rd[r].by \in Senders
       /\ sn[rd[r].by].pc \in {"taken", "panicked"} /\ sn[rd[r].by].batch = r
  /\ \A v \in Holding(rc) : rc[v].batch \in InFlight(wr) /\ wr[rc[v].batch].by = v
  /\ \A s \in Holding(sn) : sn[s].batch \in InFlight(rd) /\ rd[sn[s].batch].by = s
  /\ Cardinality(InFlight(wr)) <= Cardinality({v \in Receivers : rc[v].pc \in {"taken", "panicked"}})
  /\ Cardinality(InFlight(rd)) <= Cardinality({s \in Senders : sn[s].pc \in {"taken", "panicked"}})

\* Two receive calls hold the batches of two Writes at the same time
C23_Witness ==
  /\ Holding(rc) = Receivers
  /\ InFlight(wr) = Writers
  /\ rc["v1"].batch # rc["v2"].batch

\* C24: a consumer that has taken a batch always sends it back on its
\* completion channel and the producer receives it, also when Close or
\* multihopBind.Close comes in between: no batch is in flight with its
\* consumer gone
C24_NoStrandedCompletion ==
  /\ \A w \in InFlight(wr) : rc[wr[w].by].pc = "taken"
  /\ \A r \in InFlight(rd) : sn[rd[r].by].pc = "taken"

\* The one's complement sum of the pseudo header of a UDP datagram of len bytes
PseudoHeaderSum(src, dst, len) ==
  Checksum(src \o dst \o <<0, UDPProtocolNumber>> \o PutUint16(len), 0)

\* The checksum of the UDP datagram udp (its checksum field taken as zero)
\* between src and dst: the complement of the sum over pseudo header, header
\* and data, unless the sum is 0xFFFF
UdpChecksum(udp, src, dst) ==
  LET x == Checksum(Splice(udp, 6, <<0, 0>>), PseudoHeaderSum(src, dst, Len(udp)))
  IN IF x = 65535 THEN x ELSE Not16(x)

\* The UDP datagram Send has put into the buffer of the Read it took
EncodedUdp(s) ==
  LET r == sn[s].batch
      ipHeader == IF isIpv4 THEN IPv4MinimumSize ELSE IPv6MinimumSize
  IN SubSeq(From(rd[r].buf, rd[r].offset), ipHeader + 1,
            headerSize + Len(sn[s].payload))

\* C25: the datagram a Send encodes on an IPv6 tun carries in its UDP checksum
\* field the checksum over pseudo header, UDP header and data, which is
\* never 0
C25_Ipv6UdpChecksum ==
  \A s \in Senders :
    (/\ ~isIpv4
     /\ sn[s].pc \in {"done", "panicked"} /\ sn[s].batch # None /\ sn[s].err = None)
      => /\ Uint16At(EncodedUdp(s), 7) = UdpChecksum(EncodedUdp(s), localIp, remoteIp)
         /\ Uint16At(EncodedUdp(s), 7) # 0

\* C26: a call of EnableDaita (ActivateDaita) whose engine fails to start
\* returns false and leaves nothing behind: the instance stays unset, no
\* channel is made, no worker started, no engine kept; as long as no call
\* has returned true no instance is set, so a later call is not turned down
\* as already active
C26_StartFailure ==
  /\ []((\A i \in DOMAIN dlog.enabled : ~dlog.enabled[i]) =>
          /\ peerDaita = "nil"
          /\ eventWorker.spawned = 0 /\ actionWorker.spawned = 0
          /\ maybenot.started = 0)
  /\ [][(peerDaita = "nil" /\ Len(dlog'.enabled) = Len(dlog.enabled) + 1
           /\ ~dlog'.enabled[Len(dlog'.enabled)])
          => UNCHANGED <<peerDaita, events, actions, machineActions, maybenot,
                         eventWorker, actionWorker, staged>>]_vars

\* A first call failed to start the engine, and a second call enabled DAITA
C26_Witness ==
  /\ dlog.enabled = <<FALSE, TRUE>>
  /\ peerDaita # "nil"
  /\ eventWorker.spawned = 1 /\ actionWorker.spawned = 1

\* C27: a fired InjectPadding of size 0 stages no packet; it is logged and
\* dropped, and the action handler goes on with later actions
C27_SizeZeroDropped ==
  /\ [](\A i \in DOMAIN staged : staged[i].size > 0 /\ staged[i].id \notin dlog.skipped)
  /\ [][dlog'.skipped # dlog.skipped
          => /\ staged' = staged
             /\ actionWorker.pc = "range" /\ actionWorker'.pc = "range"]_vars

\* An action of size 0 was dropped and a later action was staged
C27_Witness ==
  \E id \in dlog.skipped : \E i \in DOMAIN staged : staged[i].id > id

\* C28: a BlockOutgoing of the engine is ignored without failure. The engine
\* returns it for machine 1, followed by an InjectPadding for machine 2: the
\* step that handles it leaves the pending action of machine 1 and the staged
\* packets as they were, stores the InjectPadding of machine 2 and leaves the
\* worker in its loop, ready for later events; a packet is staged for an
\* InjectPadding only
C28_BlockIgnored ==
  /\ [](StagedIds \subseteq 1..dlog.injects)
  /\ [][dlog'.blocks # dlog.blocks
          => /\ machineActions'[1] = machineActions[1]
             /\ machineActions'[2] # NilAction /\ machineActions'[2].id = dlog'.injects
             /\ dlog'.injects = dlog.injects + 1
             /\ staged' = staged
             /\ eventWorker'.pc = "select"]_vars

\* A BlockOutgoing was ignored, the InjectPadding returned with it was
\* staged, and the InjectPadding of a later event is pending
C28_Witness ==
  /\ dlog.blocks = 1
  /\ dlog.injects = 2
  /\ \E i \in DOMAIN staged : staged[i].id = 1 /\ staged[i].machine = 2
  /\ machineActions[1] # NilAction /\ machineActions[1].id = 2

\* C29: the engine is used by the one event worker only: one engine is
\* started and one worker, which alone calls maybenot_on_event, and
\* maybenot_on_event is never called after maybenot_stop, which ends the
\* worker
C29_SingleWorker ==
  /\ maybenot.started <= 1
  /\ eventWorker.spawned <= 1
  /\ ~maybenot.usedAfterStop
  /\ maybenot.stopped > 0 => eventWorker.pc = "stopped"

\* The worker has called the engine with an event and has stopped it, and an
\* event emitted after that waits in the channel
C29_Witness ==
  /\ maybenot.stopped = 1
  /\ Handled # {}
  /\ Queued # {}
  /\ \A q \in Queued, h \in Handled : h < q

\* C30: close cancels what is scheduled: an InjectPadding that was pending in
\* the map when Disable or Close was called is never staged, and once the call
\* has returned no padding packet is staged
C30_CloseCancels ==
  /\ [](dlog.atClose \cap StagedIds = {})
  /\ [][closer.returned > 0 => staged' = staged]_vars


\* C31: the action the worker takes out of the map when the timer expires is
\* a pending action with the least due time, and the padding packets of
\* different machines are staged in non-decreasing order of due time
C31_EarliestFires ==
  /\ [][(eventWorker.pc = "select" /\ maybenot' = maybenot /\ events' = events)
          => \A m \in Pending : machineActions'[m] = NilAction => m \in Earliest]_vars
  /\ [](\A i, j \in DOMAIN staged :
          (i < j /\ staged[i].machine # staged[j].machine)
            => staged[i].due <= staged[j].due)

\* The size the consumer of a batch sets: for a receive call the UDP payload
\* bytes of the Write's own packet, for a Send the headers and its payload
OwnWriteSize(w) == Len(recvPayload(From(wr[w].packet, wr[w].offset)).bytes)
OwnReadSize(r) == writePayload(From(rd[r].buf, rd[r].offset), sn[rd[r].by].payload).size

\* C32: with Writes (Reads) in progress at the same time, each receives the
\* completion of its own batch only: a Write or Read returns in the step in
\* which the consumer that took its batch sends it back, and the size it
\* returns is the one that consumer set for that very batch
C32_OwnCompletion ==
  /\ [](/\ \A w \in Writers :
             (wr[w].pc = "done" /\ wr[w].err = None) =>
               /\ wr[w].by \in Receivers
               /\ rc[wr[w].by].batch = w /\ rc[wr[w].by].pc = "done"
               /\ wr[w].size = rc[wr[w].by].size
               /\ wr[w].size = OwnWriteSize(w)
        /\ \A r \in Readers :
             (rd[r].pc = "done" /\ rd[r].err = None) =>
               /\ rd[r].by \in Senders
               /\ sn[rd[r].by].batch = r /\ sn[rd[r].by].pc = "done"
               /\ rd[r].size = sn[rd[r].by].size
               /\ rd[r].size = OwnReadSize(r))
  /\ [][/\ \A w \in Writers :
             (wr[w].pc = "completion" /\ wr'[w].pc = "done") =>
               rc[wr[w].by].pc = "taken" /\ rc'[wr[w].by].pc = "done"
        /\ \A r \in Readers :
             (rd[r].pc = "completion" /\ rd'[r].pc = "done") =>
               sn[rd[r].by].pc = "taken" /\ sn'[rd[r].by].pc = "done"]_vars

\* Two Writes were in progress at the same time with packets of different
\* payload lengths: the second has returned its own size while the first,
\* started before it, is still waiting for its completion
C32_Witness ==
  /\ wr["w1"].pc = "completion" /\ rc[wr["w1"].by].pc = "taken"
  /\ wr["w2"].pc = "done" /\ wr["w2"].err = None
  /\ wr["w2"].size = OwnWriteSize("w2")
  /\ OwnWriteSize("w1") # OwnWriteSize("w2")

\* C33: the byte count a receive call returns, which is also what the Write
\* that was paired with it returns, is not above the length of the buffer the
\* call was given and is the number of payload bytes copied into it: the
\* length of the UDP payload or of the buffer, whichever is less, and zero for
\* a packet that is neither IPv4 nor IPv6
C33_BytesReadInBuffer ==
  \A v \in Receivers :
    (rc[v].pc = "done" /\ rc[v].err = None) =>
      /\ rc[v].size <= Len(rc[v].out)
      /\ rc[v].size = Min(Len(rc[v].out), OwnWriteSize(rc[v].batch))
      /\ wr[rc[v].batch].size = rc[v].size

\* C34: however close and the expiry of a pending action's timer interleave,
\* the event worker never sends a fired action on the actions channel once
\* that channel is closed (the send would panic), and the channel is closed
\* at most once (a second close would panic)
C34_NoSendAfterClose ==
  /\ eventWorker.pc # "panicked"
  /\ closer.panics = 0
====
